---- MODULE Spec2Model ----
(***************************************************************************)
(* A-share timing Telegram bot (src/bot.py).                               *)
(*                                                                         *)
(* Numbers the bot handles as floats (P/E, yields, flows, ERP) are held    *)
(* here as integers in hundredths: 17.5 is 1750, 3.36 is 336.  Python's    *)
(* Optional values are sequences: None is <<>>, a present v is <<v>>.      *)
(***************************************************************************)
EXTENDS Integers, Sequences, FiniteSets, TLC

VARIABLES
    pc,                 \* position of the running command
    BOT_TOKEN, CHAT_ID, TE_API_KEY, TUSHARE_TOKEN,   \* module globals (os.getenv)
    sh_pe, allA_pe, cgb10y, nb5, lev_ratio, profit_breadth_ok,  \* build_summary locals
    erp, greens, reds, action,
    call,               \* the last fetcher call: its name, HTTP requests, failure
    posts, sent,        \* sendMessage calls issued, last result of tg_send_message
    post_net,           \* how the network answered the last sendMessage call
    now, end_time, offset,      \* poll_updates_for_status locals and the clock
    inbox, result, examined, handled, queried, upd

vars == <<pc, BOT_TOKEN, CHAT_ID, TE_API_KEY, TUSHARE_TOKEN,
          sh_pe, allA_pe, cgb10y, nb5, lev_ratio, profit_breadth_ok,
          erp, greens, reds, action, call, posts, sent, post_net,
          now, end_time, offset, inbox, result, examined, handled, queried,
          upd>>

cfgVars == <<BOT_TOKEN, CHAT_ID, TE_API_KEY, TUSHARE_TOKEN>>
fetchVars == <<sh_pe, allA_pe, cgb10y, nb5, lev_ratio, profit_breadth_ok>>
evalVars == <<erp, greens, reds, action>>
sendVars == <<posts, sent, post_net>>
pollVars == <<now, end_time, offset, inbox, result, examined, handled, queried,
              upd>>

None == <<>>
Some(v) == <<v>>

(***************************************************************************)
(* Bounds of the model.                                                    *)
(***************************************************************************)
Spread == 1             \* hundredths sampled on each side of a cut point
MaxUpdates == 2         \* inbound updates a poll run may see

(***************************************************************************)
(* THRESHOLDS, in hundredths.                                              *)
(***************************************************************************)
sh_pe_ttm_max == 1750
allA_pe_ttm_max == 1800
sh_pe_ttm_min == 1850
allA_pe_ttm_min == 1900
erp_min == 380
erp_max == 320
lev_heat_min == 3

Near(c) == {c + d : d \in -Spread..Spread}

(***************************************************************************)
(* round(x, 2) of a float x = n/d hundredths (d > 0): the nearest          *)
(* hundredth.  When n/d lies exactly half way between two hundredths the   *)
(* float that stands for it is a hair above or below the half, so either   *)
(* neighbour can come out; both are possible results.                      *)
(***************************************************************************)
Round2(n, d) ==
    LET q == (2 * n + d) \div (2 * d)
    IN  IF (2 * n + d) % (2 * d) = 0 THEN {q - 1, q} ELSE {q}

(***************************************************************************)
(* compute_erp: the results 100/pe - cgb10y can round to, or None.         *)
(***************************************************************************)
compute_erp_yield_truthy(pe, y) ==
    IF pe # None /\ pe[1] # 0 /\ pe[1] > 0 /\ y # None /\ y[1] # 0
    THEN {Some(q) : q \in Round2(1000000 - y[1] * pe[1], pe[1])}
    ELSE {None}

compute_erp(pe, y) ==
    IF pe # None /\ pe[1] # 0 /\ pe[1] > 0 /\ y # None
    THEN {Some(q) : q \in Round2(1000000 - y[1] * pe[1], pe[1])}
    ELSE {None}

(***************************************************************************)
(* JSON values as they come out of json.loads.  A string that holds        *)
(* comma-separated fields (a kline "date,value,...") is JCsv(fields), each *)
(* field a JNum when float() accepts it and a JStr when it does not.       *)
(***************************************************************************)
JNull == [t |-> "null"]
JNum(n) == [t |-> "num", v |-> n]
JStr(x) == [t |-> "str", s |-> x]
JCsv(f) == [t |-> "csv", csv |-> f]
JObj(f) == [t |-> "obj", m |-> f]
JArr(x) == [t |-> "arr", a |-> x]
EmptyDict == JObj([k \in {} |-> JNull])

\* Python truthiness of a JSON value
Truthy(j) ==
    CASE j.t = "null" -> FALSE
      [] j.t = "num" -> j.v # 0
      [] j.t = "str" -> j.s # ""
      [] j.t = "csv" -> TRUE
      [] j.t = "obj" -> DOMAIN j.m # {}
      [] j.t = "arr" -> j.a # <<>>

\* dict.get(key) of a dict
Get(j, key) == IF key \in DOMAIN j.m THEN j.m[key] ELSE JNull

\* how a block of statements ends
Ret(v) == [k |-> "return", v |-> v]
Raise == [k |-> "raise", v |-> None]
Fall == [k |-> "fall", v |-> None]

(***************************************************************************)
(* An HTTP response: how the request ended, its status, and its text,      *)
(* which is a JSON payload inside a wrapper:                               *)
(*   plain     payload            jQuery     jQuery123(payload);           *)
(*   callback  callback(payload)  anon       cb(payload)                   *)
(*   paren     (payload)          html       a page with no JSON in it     *)
(***************************************************************************)
Resp(net, status, wrap, json) ==
    [net |-> net, status |-> status, wrap |-> wrap, json |-> json]

HasBrace(j) == j.t = "obj" \/ (j.t = "arr" /\ \E i \in DOMAIN j.a : j.a[i].t = "obj")

\* txt[txt.find("{") : txt.rfind("}")+1] followed by json.loads
Peel(j) ==
    CASE j.t = "obj" -> j
      [] j.t = "arr" /\ Len(j.a) = 1 /\ j.a[1].t = "obj" -> j.a[1]
      [] OTHER -> JNull

\* the cleaning condition of _json_get and json.loads of the outcome;
\* JNull stands for a json.loads failure as well as for a parsed null
Loads(wrap, j) ==
    LET find_pos == wrap # "html" /\ HasBrace(j) /\ ~(wrap = "plain" /\ j.t = "obj")
        starts_paren_brace == wrap = "paren" /\ j.t = "obj"
        strip == wrap \in {"jQuery", "callback"}
                 \/ (~starts_paren_brace /\ find_pos)
    IN  IF wrap = "html" THEN JNull
        ELSE IF strip THEN Peel(j)
        ELSE IF wrap = "plain" THEN j
        ELSE JNull

\* _json_get: the parsed body, or None (JNull) on any exception
json_get(resp) ==
    IF resp.net # "ok" THEN JNull
    ELSE IF resp.status >= 400 THEN JNull
    ELSE Loads(resp.wrap, resp.json)

(***************************************************************************)
(* The fetchers.  Each XBody is the try block of the fetcher, and says how *)
(* it ends; the fetcher wraps it in its except clause.  A fetcher yields   *)
(* the set of outcomes its float arithmetic can produce, each with the     *)
(* requests it issued, in order, and how many of them gave it no value.    *)
(***************************************************************************)
Outcome(body, gets, fails) ==
    [k |-> body.k, v |-> body.v, gets |-> gets, fails |-> fails]

Failed(body) == IF body.k = "return" THEN 0 ELSE 1

ShBody(data) ==
    IF ~Truthy(data) THEN Fall
    ELSE IF data.t = "num" THEN Raise
    ELSE IF data.t # "obj" THEN Fall
    ELSE IF "data" \notin DOMAIN data.m THEN Fall
    ELSE LET d == data.m["data"] IN
      IF ~Truthy(d) THEN Fall
      ELSE IF d.t # "obj" THEN Raise
      ELSE LET pe == Get(d, "f162") IN
        IF ~Truthy(pe) THEN Fall
        ELSE IF pe.t # "num" THEN Raise
        ELSE IF pe.v > 0 THEN Ret(Some(pe.v)) ELSE Fall

\* try: ... except Exception: pass, then return None
ExceptPass_uncaught(body) == IF body.k = "fall" THEN Ret(None) ELSE body
ExceptPass(body) == IF body.k = "return" THEN body ELSE Ret(None)

fetch_sh_index_pe_ttm(resp) ==
    LET body == ShBody(json_get(resp))
    IN  {Outcome(ExceptPass(body), <<"eastmoney">>, Failed(body))}

AllABody(data) ==
    IF ~Truthy(data) THEN {Fall}
    ELSE IF data.t # "obj" THEN {Raise}
    ELSE LET d == Get(data, "data") IN
      IF ~Truthy(d) THEN {Fall}
      ELSE IF d.t # "obj" THEN {Raise}
      ELSE LET f == Get(d, "f162") IN
        IF ~Truthy(f) THEN {Fall}
        ELSE IF f.t # "num" THEN {Raise}
        ELSE {Ret(Some(q)) : q \in Round2(f.v * 105, 100)}

fetch_allA_pe_ttm_equally_weighted_proxy(resp) ==
    {Outcome(ExceptPass(body), <<"eastmoney">>, Failed(body)) :
        body \in AllABody(json_get(resp))}

\* float(item.split(",")[1])
Field2(item) ==
    IF item.t # "csv" THEN Raise
    ELSE IF Len(item.csv) < 2 THEN Raise
    ELSE IF item.csv[2].t # "num" THEN Raise
    ELSE Ret(item.csv[2].v)

CgbBody(data) ==
    IF ~Truthy(data) THEN Fall
    ELSE IF data.t # "obj" THEN Raise
    ELSE LET d == Get(data, "data") IN
      IF ~Truthy(d) THEN Fall
      ELSE IF d.t # "obj" THEN Raise
      ELSE LET trends == Get(d, "trends") IN
        IF ~Truthy(trends) THEN Fall
        ELSE IF trends.t # "arr" THEN Raise
        ELSE LET y == Field2(trends.a[Len(trends.a)]) IN
          IF y.k = "raise" THEN Raise ELSE Ret(Some(y.v))

\* the TradingEconomics block: requests.get, raise_for_status, te.json()
TeBody(te) ==
    IF te.net # "ok" \/ te.status >= 400 \/ te.wrap # "plain" THEN Raise
    ELSE LET arr == te.json IN
      IF arr.t # "arr" \/ ~Truthy(arr) THEN Fall
      ELSE IF arr.a[1].t # "obj" THEN Raise
      ELSE LET last == Get(arr.a[1], "Last")
               y == IF Truthy(last) THEN last ELSE Get(arr.a[1], "Value")
           IN  IF y.t = "null" THEN Fall
               ELSE IF y.t # "num" THEN Raise
               ELSE Ret(Some(y.v))

fetch_cgb10y_yield(resp, te, key) ==
    LET first == CgbBody(json_get(resp))
        second == TeBody(te)
    IN  IF first.k = "return" THEN {Outcome(first, <<"eastmoney">>, 0)}
        ELSE IF key # ""
             THEN {Outcome(ExceptPass(second), <<"eastmoney", "te">>,
                           1 + Failed(second))}
             ELSE {Outcome(Ret(None), <<"eastmoney">>, 1)}

RECURSIVE SumLast(_, _)
\* sum of the second fields of the last n items; Raise when one is missing
SumLast(arr, n) ==
    IF n = 0 \/ arr = <<>> THEN Ret(0)
    ELSE LET rest == SumLast(SubSeq(arr, 1, Len(arr) - 1), n - 1)
             x == Field2(arr[Len(arr)])
         IN  IF rest.k = "raise" \/ x.k = "raise" THEN Raise
             ELSE Ret(rest.v + x.v)

NbBody(data) ==
    IF data.t # "obj" THEN Raise
    ELSE IF "data" \notin DOMAIN data.m THEN Raise
    ELSE LET d == data.m["data"] IN
      IF d.t # "obj" THEN Raise
      ELSE IF "klines" \notin DOMAIN d.m THEN Raise
      ELSE LET arr == d.m["klines"] IN
        IF arr.t # "arr" THEN Raise
        ELSE LET five == SumLast(arr.a, 5) IN
          IF five.k = "raise" \/ arr.a = <<>> THEN Raise
          ELSE Ret(Some(<<five.v, Field2(arr.a[Len(arr.a)]).v>>))

fetch_northbound_5day_inflow(resp) ==
    LET body == NbBody(json_get(resp))
    IN  {Outcome(ExceptPass(body), <<"eastmoney">>, Failed(body))}

fetch_leverage_heat_ratio == {Outcome(Ret(None), <<>>, 0)}

(***************************************************************************)
(* fetch_profit_breadth_qoq_latest.  A TuShare answer is "error" (the      *)
(* import or the query raised), "empty" (no usable q_profit_yoy column) or *)
(* "ok" with the share of companies with q_profit_yoy > 0, in percent.     *)
(***************************************************************************)
calc_breadth(df) == IF df.st = "empty" THEN None ELSE Some(df.share)

ProfitBody(df_last, df_prev) ==
    IF df_last.st = "error" \/ df_prev.st = "error" THEN Raise
    ELSE LET b_last == calc_breadth(df_last)
             b_prev == calc_breadth(df_prev)
         IN  IF b_last = None \/ b_prev = None THEN Ret(None)
             ELSE Ret(Some(b_last[1] > b_prev[1]))

fetch_profit_breadth_qoq_latest(token, df_last, df_prev) ==
    IF token = "" THEN {Outcome(Ret(None), <<>>, 0)}
    ELSE LET body == ProfitBody(df_last, df_prev)
             gets == IF df_last.st = "error" THEN <<"tushare last quarter">>
                     ELSE <<"tushare last quarter", "tushare previous quarter">>
             fails == (IF df_last.st = "ok" THEN 0 ELSE 1)
                      + (IF df_last.st = "error" \/ df_prev.st = "ok" THEN 0 ELSE 1)
         IN  {Outcome(ExceptPass(body), gets, fails)}

(***************************************************************************)
(* build_summary: threshold rules and the decision.                        *)
(***************************************************************************)
G_SH_PE == "green: sh_pe <= 17.5"
G_ALLA_PE == "green: allA_pe <= 18"
R_SH_PE == "red: sh_pe >= 18.5"
R_ALLA_PE == "red: allA_pe >= 19"
G_ERP == "green: erp >= 3.8"
R_ERP == "red: erp <= 3.2"
G_PROFIT == "green: profit breadth improved"
R_PROFIT == "red: profit breadth weakened"
G_NB == "green: northbound 5d inflow positive"
R_NB == "red: northbound 5d inflow negative"
R_LEV == "red: leverage >= 3%"

HOLD == "hold"
ADVANCE == "advance to 35% equity"
RETREAT == "retreat to <= 30% equity"

AppendIf(seq, cond, label) == IF cond THEN Append(seq, label) ELSE seq

sh_pe_green_strict(v) == v # None /\ v[1] < sh_pe_ttm_max
sh_pe_green(v) == v # None /\ v[1] <= sh_pe_ttm_max
sh_pe_red(v) == v # None /\ v[1] >= sh_pe_ttm_min
allA_pe_green(v) == v # None /\ v[1] <= allA_pe_ttm_max
allA_pe_red(v) == v # None /\ v[1] >= allA_pe_ttm_min
erp_green(v) == v # None /\ v[1] >= erp_min
erp_red_overlapping(v) == v # None /\ v[1] <= erp_min
erp_red(v) == v # None /\ v[1] <= erp_max
nb_green(v) == v # None /\ v[1][1] > 0
nb_red_unguarded(v) == v = None \/ ~(v[1][1] > 0)
nb_red(v) == v # None /\ ~(v[1][1] > 0)
lev_red(v) == v # None /\ v[1] >= lev_heat_min

build_greens(shpe, alla, e, pb, nb) ==
    LET g1 == AppendIf(<<>>, sh_pe_green(shpe), G_SH_PE)
        g2 == AppendIf(g1, allA_pe_green(alla), G_ALLA_PE)
        g3 == AppendIf(g2, erp_green(e), G_ERP)
        g4 == AppendIf(g3, pb = Some(TRUE), G_PROFIT)
    IN  AppendIf(g4, nb_green(nb), G_NB)

build_reds(shpe, alla, e, pb, nb, lev) ==
    LET r1 == AppendIf(<<>>, sh_pe_red(shpe), R_SH_PE)
        r2 == AppendIf(r1, allA_pe_red(alla), R_ALLA_PE)
        r3 == AppendIf(r2, erp_red(e), R_ERP)
        r4 == AppendIf(r3, pb = Some(FALSE), R_PROFIT)
        r5 == AppendIf(r4, nb_red(nb), R_NB)
    IN  AppendIf(r5, lev_red(lev), R_LEV)

decide_action_advance_first(green_count, red_count) ==
    IF green_count >= 3 THEN ADVANCE
    ELSE IF red_count >= 2 THEN RETREAT ELSE HOLD

decide_action(green_count, red_count) ==
    LET a1 == IF green_count >= 3 /\ red_count <= 1 THEN ADVANCE ELSE HOLD
    IN  IF red_count >= 2 THEN RETREAT ELSE a1

(***************************************************************************)
(* tg_send_message: what it returns and how many sendMessage calls it made *)
(***************************************************************************)
tg_send_message_no_guard(token, chat, net, status) ==
    IF net # "ok" \/ status >= 400
    THEN Outcome(Ret(FALSE), <<"sendMessage">>, 1)
    ELSE Outcome(Ret(TRUE), <<"sendMessage">>, 0)

tg_send_message(token, chat, net, status) ==
    IF token = "" \/ chat = <<>> THEN Outcome(Ret(FALSE), <<>>, 0)
    ELSE IF net # "ok" \/ status >= 400
         THEN Outcome(Ret(FALSE), <<"sendMessage">>, 1)
         ELSE Outcome(Ret(TRUE), <<"sendMessage">>, 0)

(***************************************************************************)
(* What the outside world can answer.                                      *)
(***************************************************************************)
Wraps == {"plain", "jQuery", "callback", "anon", "paren", "html"}

Responses(payloads, wrapped) ==
    {Resp("ok", 200, "plain", j) : j \in payloads}
    \cup {Resp("ok", 200, w, j) : w \in Wraps, j \in wrapped}
    \cup {Resp("timeout", 0, "html", JNull), Resp("ok", 500, "html", JNull),
          Resp("ok", 200, "plain", JNull), Resp("ok", 200, "plain", JNum(5)),
          Resp("ok", 200, "plain", EmptyDict)}

StockGet(f) == JObj([data |-> JObj([f162 |-> f])])

BadStock ==
    {StockGet(JStr("-")), StockGet(JNull), StockGet(JNum(0)),
     StockGet(JNum(-1200)), JObj([data |-> JNull]), JObj([rc |-> JNum(0)]),
     JObj([data |-> JArr(<<JNum(1)>>)]), JObj([data |-> JObj([f57 |-> JStr("x")])])}

ShValues == Near(sh_pe_ttm_max) \cup Near(sh_pe_ttm_min) \cup {2000}
ShResponses ==
    Responses({StockGet(JNum(v)) : v \in ShValues} \cup BadStock,
              {StockGet(JNum(2000)), JArr(<<StockGet(JNum(2000))>>)})

\* CSI300 P/E values whose 1.05 multiple falls on and around the cut points
AllAValues == {1714 + d : d \in -Spread..Spread} \cup {1810 + d : d \in -Spread..Spread}
              \cup {-1000}
AllAResponses ==
    Responses({StockGet(JNum(v)) : v \in AllAValues} \cup BadStock,
              {StockGet(JNum(1714))})

Kline(v) == JCsv(<<JStr("2024-01-02"), JNum(v)>>)
Trends(seq) == JObj([data |-> JObj([trends |-> JArr(seq)])])
\* with sh_pe = 20.00 (earnings yield 5.00) these put the ERP on and around its cuts
YieldValues == {500 - e : e \in Near(erp_min) \cup Near(erp_max)} \cup {0}
BadTrends ==
    {Trends(<<>>), Trends(<<JCsv(<<JStr("2024-01-02")>>)>>),
     Trends(<<JCsv(<<JStr("2024-01-02"), JStr("-")>>)>>), Trends(<<JNum(1)>>),
     JObj([data |-> JObj([trends |-> JStr("x")])]), JObj([data |-> JNum(1)])}
CgbResponses ==
    Responses({Trends(<<Kline(1), Kline(v)>>) : v \in YieldValues} \cup BadTrends,
              {Trends(<<Kline(120)>>)})

TePayloads ==
    {JArr(<<JObj([Last |-> JNum(v)])>>) : v \in {120, 180}}
    \cup {JArr(<<JObj([Last |-> JNum(0), Value |-> JNum(0)])>>),
          JArr(<<JObj([Value |-> JNum(181)])>>),
          JArr(<<JObj([Last |-> JStr("n/a")])>>),
          JArr(<<JObj([Symbol |-> JStr("GCNY10YR")])>>),
          JArr(<<JNum(1)>>), JArr(<<>>), JObj([Last |-> JNum(120)])}
TeResponses == Responses(TePayloads, {JArr(<<JObj([Last |-> JNum(120)])>>)})

Klines(seq) == JObj([data |-> JObj([klines |-> JArr(seq)])])
NbPayloads ==
    {Klines(<<Kline(900), Kline(a), Kline(-10), Kline(20), Kline(-30), Kline(b)>>) :
        a \in {15, 20}, b \in {-5, 5}}
    \cup {Klines(<<Kline(-10), Kline(5)>>), Klines(<<>>),
          Klines(<<Kline(5), JCsv(<<JStr("2024-01-02")>>)>>),
          Klines(<<Kline(5), JCsv(<<JStr("2024-01-02"), JStr("-")>>), Kline(7)>>),
          JObj([data |-> JObj([rc |-> JNum(0)])]), JObj([data |-> JNull]),
          JObj([rc |-> JNum(0)])}
NbResponses == Responses(NbPayloads, {Klines(<<Kline(-5)>>)})

Frame(st, share) == [st |-> st, share |-> share]
Frames == {Frame("error", 0), Frame("empty", 0)}
          \cup {Frame("ok", 40 + d) : d \in 0..Spread}

\* BOT_TOKEN, CHAT_ID, TE_API_KEY, TUSHARE_TOKEN as the environment sets them
Config(bot, chat, te, ts) == [bot |-> bot, chat |-> chat, te |-> te, ts |-> ts]
Configs ==
    {Config("secret", <<"4", "2">>, "key", "token"),
     Config("secret", <<"4", "2">>, "", ""),
     Config("secret", <<>>, "key", ""),
     Config("", <<"4", "2">>, "", "token"),
     Config("", <<>>, "", "")}

(***************************************************************************)
(* The commands "run" and "status" of main: build_summary, one fetcher     *)
(* after the other, then the rules, then tg_send_message.                  *)
(***************************************************************************)
NoCall == [name |-> "", k |-> "return", gets |-> <<>>, fails |-> 0]

PollIdle ==
    /\ now = 0 /\ end_time = 0 /\ offset = None /\ inbox = <<>> /\ result = <<>>
    /\ examined = <<>> /\ handled = <<>> /\ queried = <<>> /\ upd = None

SummaryIdle ==
    /\ sh_pe = None /\ allA_pe = None /\ cgb10y = None /\ nb5 = None
    /\ lev_ratio = None /\ profit_breadth_ok = None
    /\ erp = None /\ greens = <<>> /\ reds = <<>> /\ action = HOLD
    /\ call = NoCall /\ posts = 0 /\ sent = None /\ post_net = None

Init ==
    /\ pc = "fetch_sh"
    /\ \E c \in Configs :
        /\ BOT_TOKEN = c.bot /\ CHAT_ID = c.chat
        /\ TE_API_KEY = c.te /\ TUSHARE_TOKEN = c.ts
    /\ SummaryIdle /\ PollIdle

\* the fetcher returned o to build_summary, or raised into main's except
Fetched(name, o, next) ==
    /\ call' = [name |-> name, k |-> o.k, gets |-> o.gets, fails |-> o.fails]
    /\ pc' = IF o.k = "raise" THEN "crashed" ELSE next

FetchShPe ==
    /\ pc = "fetch_sh"
    /\ \E resp \in ShResponses : \E o \in fetch_sh_index_pe_ttm(resp) :
        /\ Fetched("fetch_sh_index_pe_ttm", o, "fetch_allA")
        /\ sh_pe' = o.v
    /\ UNCHANGED <<cfgVars, allA_pe, cgb10y, nb5, lev_ratio, profit_breadth_ok,
                   evalVars, sendVars, pollVars>>

FetchAllA ==
    /\ pc = "fetch_allA"
    /\ \E resp \in AllAResponses :
       \E o \in fetch_allA_pe_ttm_equally_weighted_proxy(resp) :
        /\ Fetched("fetch_allA_pe_ttm_equally_weighted_proxy", o, "fetch_cgb")
        /\ allA_pe' = o.v
    /\ UNCHANGED <<cfgVars, sh_pe, cgb10y, nb5, lev_ratio, profit_breadth_ok,
                   evalVars, sendVars, pollVars>>

FetchCgb ==
    /\ pc = "fetch_cgb"
    /\ \E resp \in CgbResponses, te \in TeResponses :
       \E o \in fetch_cgb10y_yield(resp, te, TE_API_KEY) :
        /\ Fetched("fetch_cgb10y_yield", o, "fetch_nb")
        /\ cgb10y' = o.v
    /\ UNCHANGED <<cfgVars, sh_pe, allA_pe, nb5, lev_ratio, profit_breadth_ok,
                   evalVars, sendVars, pollVars>>

FetchNb ==
    /\ pc = "fetch_nb"
    /\ \E resp \in NbResponses : \E o \in fetch_northbound_5day_inflow(resp) :
        /\ Fetched("fetch_northbound_5day_inflow", o, "fetch_lev")
        /\ nb5' = o.v
    /\ UNCHANGED <<cfgVars, sh_pe, allA_pe, cgb10y, lev_ratio, profit_breadth_ok,
                   evalVars, sendVars, pollVars>>

FetchLev ==
    /\ pc = "fetch_lev"
    /\ \E o \in fetch_leverage_heat_ratio :
        /\ Fetched("fetch_leverage_heat_ratio", o, "fetch_profit")
        /\ lev_ratio' = o.v
    /\ UNCHANGED <<cfgVars, sh_pe, allA_pe, cgb10y, nb5, profit_breadth_ok,
                   evalVars, sendVars, pollVars>>

FetchProfit ==
    /\ pc = "fetch_profit"
    /\ \E df_last \in Frames, df_prev \in Frames :
       \E o \in fetch_profit_breadth_qoq_latest(TUSHARE_TOKEN, df_last, df_prev) :
        /\ Fetched("fetch_profit_breadth_qoq_latest", o, "evaluate")
        /\ profit_breadth_ok' = o.v
    /\ UNCHANGED <<cfgVars, sh_pe, allA_pe, cgb10y, nb5, lev_ratio,
                   evalVars, sendVars, pollVars>>

\* lines 256-306 of build_summary
Evaluate ==
    /\ pc = "evaluate"
    /\ \E e \in compute_erp(sh_pe, cgb10y) :
        /\ erp' = e
        /\ greens' = build_greens(sh_pe, allA_pe, e, profit_breadth_ok, nb5)
        /\ reds' = build_reds(sh_pe, allA_pe, e, profit_breadth_ok, nb5, lev_ratio)
    /\ action' = decide_action(Len(greens'), Len(reds'))
    /\ pc' = "send"
    /\ UNCHANGED <<cfgVars, fetchVars, call, sendVars, pollVars>>

NetOutcomes == {<<"ok", 200>>, <<"ok", 500>>, <<"timeout", 0>>}

Send ==
    /\ pc = "send"
    /\ \E n \in NetOutcomes :
        LET r == tg_send_message(BOT_TOKEN, CHAT_ID, n[1], n[2])
        IN  /\ Fetched("tg_send_message", r, "done")
            /\ posts' = posts + Len(r.gets)
            /\ sent' = IF r.k = "raise" THEN sent ELSE Some(r.v)
            /\ post_net' = IF r.gets = <<>> THEN None ELSE n
    /\ UNCHANGED <<cfgVars, fetchVars, evalVars, pollVars>>

Next ==
    \/ FetchShPe \/ FetchAllA \/ FetchCgb \/ FetchNb \/ FetchLev \/ FetchProfit
    \/ Evaluate \/ Send

Spec == Init /\ [][Next]_vars

(***************************************************************************)
(* compute_erp on its own, over inputs build_summary never hands it        *)
(* (a zero or negative pe).                                                *)
(***************************************************************************)
ErpPe == {None} \cup {Some(p) : p \in {-1800, -1, 0, 1, 1800, 2000, 3200, 6400}
                                       \cup Near(sh_pe_ttm_max)}
ErpYield == {None} \cup {Some(y) : y \in {-50, 0, 220, 221, 222, 223, 312, 500}}

InitErp ==
    /\ pc = "erp_in"
    /\ BOT_TOKEN = "" /\ CHAT_ID = <<>> /\ TE_API_KEY = "" /\ TUSHARE_TOKEN = ""
    /\ sh_pe \in ErpPe /\ allA_pe = None /\ cgb10y \in ErpYield /\ nb5 = None
    /\ lev_ratio = None /\ profit_breadth_ok = None
    /\ erp = None /\ greens = <<>> /\ reds = <<>> /\ action = HOLD
    /\ call = NoCall /\ posts = 0 /\ sent = None /\ post_net = None
    /\ PollIdle

ComputeErp ==
    /\ pc = "erp_in"
    /\ erp' \in compute_erp(sh_pe, cgb10y)
    /\ pc' = "erp_out"
    /\ UNCHANGED <<cfgVars, fetchVars, greens, reds, action, call, sendVars, pollVars>>

NextErp == ComputeErp

SpecErp == InitErp /\ [][NextErp]_vars

(***************************************************************************)
(* Properties of build_summary and tg_send_message (Spec).                 *)
(***************************************************************************)
Evaluated == pc \in {"send", "done"}
Has(seq, label) == \E i \in DOMAIN seq : seq[i] = label
Fetchers ==
    {"fetch_sh_index_pe_ttm", "fetch_allA_pe_ttm_equally_weighted_proxy",
     "fetch_cgb10y_yield", "fetch_northbound_5day_inflow",
     "fetch_leverage_heat_ratio", "fetch_profit_breadth_qoq_latest"}
\* the value the last fetcher call handed to build_summary
Fetched_value ==
    CASE call.name = "fetch_sh_index_pe_ttm" -> sh_pe
      [] call.name = "fetch_allA_pe_ttm_equally_weighted_proxy" -> allA_pe
      [] call.name = "fetch_cgb10y_yield" -> cgb10y
      [] call.name = "fetch_northbound_5day_inflow" -> nb5
      [] call.name = "fetch_leverage_heat_ratio" -> lev_ratio
      [] OTHER -> profit_breadth_ok
NoRepeat(seq) == \A i, j \in DOMAIN seq : i # j => seq[i] # seq[j]

\* C1: the recommended action is a function of the two counts alone: two
\* or more reds give "retreat" (also with three greens), otherwise three or
\* more greens give "advance", otherwise "hold".
C1_ActionFromCounts ==
    Evaluated =>
        action = IF Len(reds) >= 2 THEN RETREAT
                 ELSE IF Len(greens) >= 3 THEN ADVANCE
                 ELSE HOLD
C1_Witness ==
    Evaluated /\ Len(greens) = 3 /\ Len(reds) = 2 /\ action = RETREAT

\* C2: an absent indicator puts no label in the green or the red list; an
\* absent sh_pe or an absent bond yield also leaves out the ERP labels.
C2_AbsentNoLabel ==
    Evaluated =>
        /\ sh_pe = None =>
             ~Has(greens, G_SH_PE) /\ ~Has(reds, R_SH_PE)
             /\ ~Has(greens, G_ERP) /\ ~Has(reds, R_ERP)
        /\ cgb10y = None => ~Has(greens, G_ERP) /\ ~Has(reds, R_ERP)
        /\ allA_pe = None => ~Has(greens, G_ALLA_PE) /\ ~Has(reds, R_ALLA_PE)
        /\ nb5 = None => ~Has(greens, G_NB) /\ ~Has(reds, R_NB)
        /\ lev_ratio = None => ~Has(reds, R_LEV)
        /\ profit_breadth_ok = None => ~Has(greens, G_PROFIT) /\ ~Has(reds, R_PROFIT)
C2_Witness ==
    /\ Evaluated /\ sh_pe = None /\ nb5 = None /\ lev_ratio = None
    /\ cgb10y # None /\ allA_pe # None /\ greens = <<G_ALLA_PE>> /\ reds = <<>>

\* C3: a Shanghai P/E of 17.5 or less is green and not red, one of 18.5 or
\* more is red and not green, one strictly between is in neither list.
C3_ShPeBoundaries ==
    Evaluated /\ sh_pe # None =>
        /\ sh_pe[1] <= 1750 => Has(greens, G_SH_PE) /\ ~Has(reds, R_SH_PE)
        /\ sh_pe[1] >= 1850 => Has(reds, R_SH_PE) /\ ~Has(greens, G_SH_PE)
        /\ (1750 < sh_pe[1] /\ sh_pe[1] < 1850) =>
             ~Has(greens, G_SH_PE) /\ ~Has(reds, R_SH_PE)
C3_Witness ==
    Evaluated /\ sh_pe = Some(1750) /\ Has(greens, G_SH_PE) /\ ~Has(reds, R_SH_PE)

\* C5: without BOT_TOKEN or CHAT_ID tg_send_message returns false and
\* issues no call; with both it issues exactly one call and returns true
\* exactly when the call succeeded; it never raises.
C5_SendContract ==
    call.name = "tg_send_message" =>
        /\ call.k = "return" /\ pc = "done"
        /\ (BOT_TOKEN = "" \/ CHAT_ID = <<>>) =>
             sent = Some(FALSE) /\ posts = 0 /\ post_net = None
        /\ (BOT_TOKEN # "" /\ CHAT_ID # <<>>) =>
             posts = 1 /\ sent = Some(post_net = <<"ok", 200>>)
C5_Witness ==
    call.name = "tg_send_message" /\ BOT_TOKEN # "" /\ CHAT_ID = <<>>
    /\ sent = Some(FALSE) /\ posts = 0

Neutral_sh_pe == \E v \in 1700..1900 : ~sh_pe_green(Some(v)) /\ ~sh_pe_red(Some(v))
Neutral_allA_pe == \E v \in 1700..2000 : ~allA_pe_green(Some(v)) /\ ~allA_pe_red(Some(v))
Neutral_erp == \E v \in 300..400 : ~erp_green(Some(v)) /\ ~erp_red(Some(v))
Neutral_nb == \E v \in -100..100 : ~nb_green(Some(<<v, 0>>)) /\ ~nb_red(Some(<<v, 0>>))
NeverBoth ==
    /\ ~(Has(greens, G_SH_PE) /\ Has(reds, R_SH_PE))
    /\ ~(Has(greens, G_ALLA_PE) /\ Has(reds, R_ALLA_PE))
    /\ ~(Has(greens, G_ERP) /\ Has(reds, R_ERP))
    /\ ~(Has(greens, G_NB) /\ Has(reds, R_NB))

\* C8 as stated: each of the four indicators is never in both lists and
\* has present values that put it in neither.
C8_NeutralBandEverywhere ==
    Evaluated =>
        NeverBoth /\ Neutral_sh_pe /\ Neutral_allA_pe /\ Neutral_erp /\ Neutral_nb
\* C8 amended: no indicator is ever in both lists; the two P/E rules and
\* the ERP rule have present values in neither list, while a present
\* northbound flow is always in exactly one list (zero counts as red).
C8_NeutralBandButNorthbound ==
    Evaluated =>
        /\ NeverBoth /\ Neutral_sh_pe /\ Neutral_allA_pe /\ Neutral_erp
        /\ nb5 # None => (Has(greens, G_NB) /\ nb5[1][1] > 0)
                          \/ (Has(reds, R_NB) /\ nb5[1][1] <= 0)
        /\ (sh_pe # None /\ ~Has(greens, G_SH_PE) /\ ~Has(reds, R_SH_PE))
             => (1750 < sh_pe[1] /\ sh_pe[1] < 1850)
        /\ (allA_pe # None /\ ~Has(greens, G_ALLA_PE) /\ ~Has(reds, R_ALLA_PE))
             => (1800 < allA_pe[1] /\ allA_pe[1] < 1900)
        /\ (erp # None /\ ~Has(greens, G_ERP) /\ ~Has(reds, R_ERP))
             => (320 < erp[1] /\ erp[1] < 380)
C8_Witness ==
    /\ Evaluated /\ nb5 # None /\ nb5[1][1] = 0 /\ Has(reds, R_NB)
    /\ erp = Some(379) /\ ~Has(greens, G_ERP) /\ ~Has(reds, R_ERP)
    /\ allA_pe # None /\ ~Has(greens, G_ALLA_PE) /\ ~Has(reds, R_ALLA_PE)

(***************************************************************************)
(* Properties of compute_erp (SpecErp).                                    *)
(***************************************************************************)
\* C4: compute_erp gives 100/pe - yield rounded to two decimals exactly
\* when pe is present and positive and the yield is present (0 included),
\* and absent otherwise; pe = 18.0 and yield = 2.2 give 3.36.
C4_ComputeErp ==
    pc = "erp_out" =>
        LET defined == sh_pe # None /\ cgb10y # None /\ sh_pe[1] >= 1
        IN  /\ defined =>
                /\ erp # None
                /\ LET exact == 1000000 - cgb10y[1] * sh_pe[1]
                       diff == exact - erp[1] * sh_pe[1]
                   IN  2 * diff <= sh_pe[1] /\ 2 * diff >= -sh_pe[1]
            /\ ~defined => erp = None
            /\ (sh_pe = Some(1800) /\ cgb10y = Some(220)) => erp = Some(336)
C4_Witness ==
    pc = "erp_out" /\ sh_pe = Some(1800) /\ cgb10y = Some(220) /\ erp = Some(336)

(***************************************************************************)
(* poll_updates_for_status.  Texts are sequences of characters, so that    *)
(* strip() and lower() do what they do.                                    *)
(***************************************************************************)
Whitespace == {" ", "\n", "\t"}
Lower(c) ==
    CASE c = "S" -> "s" [] c = "T" -> "t" [] c = "A" -> "a" [] c = "U" -> "u"
      [] OTHER -> c

RECURSIVE LStrip(_)
LStrip(x) == IF x # <<>> /\ Head(x) \in Whitespace THEN LStrip(Tail(x)) ELSE x
RECURSIVE RStrip(_)
RStrip(x) ==
    IF x # <<>> /\ x[Len(x)] \in Whitespace THEN RStrip(SubSeq(x, 1, Len(x) - 1))
    ELSE x
Strip(x) == RStrip(LStrip(x))
StripLower(x) == [i \in DOMAIN Strip(x) |-> Lower(Strip(x)[i])]

RECURSIVE Decimal(_)
Decimal(n) ==
    LET digit == <<"0", "1", "2", "3", "4", "5", "6", "7", "8", "9">>[(n % 10) + 1]
    IN  IF n < 10 THEN <<digit>> ELSE Append(Decimal(n \div 10), digit)
\* str() of a chat id: an integer, or None when the update names no chat
Str(id) ==
    IF id = None THEN <<"N", "o", "n", "e">>
    ELSE IF id[1] < 0 THEN <<"-">> \o Decimal(-id[1])
    ELSE Decimal(id[1])

CMD_SLASH_STATUS == <<"/", "s", "t", "a", "t", "u", "s">>
CMD_STATUS == <<"s", "t", "a", "t", "u", "s">>

(***************************************************************************)
(* An inbound update.  kind says where its message is: under "message",    *)
(* under "edited_message", nowhere ("other": a channel post, a poll), or   *)
(* under "message" with a null chat ("null_chat").                         *)
(***************************************************************************)
Update(kind, chat, text) ==
    [update_id |-> 0, kind |-> kind, chat |-> chat, text |-> text]

Shapes ==
    {Update("message", Some(42), Some(CMD_SLASH_STATUS)),
     Update("edited_message", Some(42), Some(<<" ", "S", "t", "a", "t", "u", "s", "\n">>)),
     Update("message", Some(-42), Some(CMD_SLASH_STATUS)),
     Update("message", Some(42), Some(<<"/", "s", "t", "a", "t", "u", "s", "x">>)),
     Update("other", None, None),
     Update("null_chat", None, Some(CMD_STATUS))}

\* lines 394-397: whether the update is the command from the configured chat
is_status_any_chat(u, chat_id) ==
    IF u.kind = "null_chat" THEN Raise
    ELSE LET text == IF u.kind = "other" \/ u.text = None THEN <<>>
                     ELSE StripLower(u.text[1])
         IN  Ret(text = CMD_SLASH_STATUS \/ text = CMD_STATUS)

is_status(u, chat_id) ==
    IF u.kind = "null_chat" THEN Raise
    ELSE LET chat == IF u.kind = "other" THEN None ELSE u.chat
             text == IF u.kind = "other" \/ u.text = None THEN <<>>
                     ELSE StripLower(u.text[1])
         IN  Ret(Str(chat) = chat_id
                 /\ (text = CMD_SLASH_STATUS \/ text = CMD_STATUS))

\* line 393
next_offset_same(u) == Some(u.update_id)
next_offset(u) == Some(u.update_id + 1)

\* lines 385-387: the offset parameter of the query, None when left out
offset_param(off) == IF off # None /\ off[1] # 0 THEN off ELSE None

\* line 383
poll_continue_inclusive(t, end) == t <= end
poll_continue(t, end) == t < end

\* The endpoint: the unconfirmed updates from the offset on, oldest first;
\* a query with an offset confirms (drops) every update below it.
Unconfirmed(box, off) ==
    SelectSeq(box, LAMBDA u : off = None \/ u.update_id >= off[1])

Latencies == {8, 28}            \* seconds a getUpdates call may block
HandleDurations == {40}     \* seconds handle_status may take
PollMinutes == {0, 1}           \* the poll_minutes argument
Answers == {"ok", "timeout", "http_error", "bad_json", "not_ok"}

InitPoll ==
    /\ pc = "poll_start"
    /\ \E c \in Configs :
        /\ BOT_TOKEN = c.bot /\ CHAT_ID = c.chat
        /\ TE_API_KEY = c.te /\ TUSHARE_TOKEN = c.ts
    /\ SummaryIdle /\ PollIdle

\* lines 377-382
PollStart ==
    /\ pc = "poll_start"
    /\ \E poll_minutes \in PollMinutes :
        IF BOT_TOKEN = "" \/ CHAT_ID = <<>>
        THEN pc' = "done" /\ UNCHANGED <<end_time, offset>>
        ELSE /\ end_time' = now + poll_minutes * 60
             /\ offset' = None
             /\ pc' = "poll_loop"
    /\ UNCHANGED <<cfgVars, fetchVars, evalVars, call, sendVars,
                   now, inbox, result, examined, handled, queried, upd>>

\* lines 383-391: the loop test and one getUpdates call
PollQuery ==
    /\ pc = "poll_loop"
    /\ poll_continue(now, end_time)
    /\ \E d \in Latencies, ans \in Answers :
        /\ queried' = Some([at |-> now, offset |-> offset_param(offset)])
        /\ now' = now + d
        /\ IF ans = "ok"
           THEN /\ inbox' = Unconfirmed(inbox, offset_param(offset))
                /\ result' = inbox'
                /\ pc' = "poll_for"
           ELSE /\ result' = <<>>
                /\ pc' = "poll_sleep"
                /\ UNCHANGED inbox
    /\ UNCHANGED <<cfgVars, fetchVars, evalVars, call, sendVars,
                   end_time, offset, examined, handled, upd>>

PollExit ==
    /\ pc = "poll_loop"
    /\ ~poll_continue(now, end_time)
    /\ pc' = "done"
    /\ UNCHANGED <<cfgVars, fetchVars, evalVars, call, sendVars, pollVars>>

\* lines 392-397: one turn of the for loop
Examine ==
    /\ pc = "poll_for"
    /\ result # <<>>
    /\ LET u == Head(result)
           r == is_status(u, CHAT_ID)
       IN  /\ offset' = next_offset(u)
           /\ examined' = [examined EXCEPT ![u.update_id] = @ + 1]
           /\ upd' = Some(u)
           /\ IF r.k = "raise"
              THEN result' = <<>> /\ pc' = "poll_sleep"
              ELSE /\ result' = Tail(result)
                   /\ pc' = IF r.v THEN "handle_status" ELSE "poll_for"
    /\ UNCHANGED <<cfgVars, fetchVars, evalVars, call, sendVars,
                   now, end_time, inbox, handled, queried>>

PollForEnd ==
    /\ pc = "poll_for"
    /\ result = <<>>
    /\ pc' = "poll_sleep"
    /\ UNCHANGED <<cfgVars, fetchVars, evalVars, call, sendVars, pollVars>>

\* lines 368-370 and 398: build_summary, whose values are dropped on
\* return, and tg_send_message of its text
HandleStatus ==
    /\ pc = "handle_status"
    /\ \E n \in NetOutcomes, d \in HandleDurations :
        LET r == tg_send_message(BOT_TOKEN, CHAT_ID, n[1], n[2])
        IN  /\ posts' = posts + Len(r.gets)
            /\ now' = now + d
            /\ pc' = IF r.k = "raise" THEN "poll_sleep" ELSE "poll_for"
    /\ handled' = [handled EXCEPT ![upd[1].update_id] = @ + 1]
    /\ upd' = None
    /\ UNCHANGED <<cfgVars, fetchVars, evalVars, call, sent, post_net,
                   end_time, offset, inbox, result, examined, queried>>

\* line 401
PollSleep ==
    /\ pc = "poll_sleep"
    /\ now' = now + 2
    /\ pc' = "poll_loop"
    /\ UNCHANGED <<cfgVars, fetchVars, evalVars, call, sendVars,
                   end_time, offset, inbox, result, examined, handled, queried, upd>>

\* Somebody sends the bot a message.  The program sees the inbox only when
\* it queries, so an arrival at any moment is an arrival before the next query.
Arrive ==
    /\ pc \in {"poll_start", "poll_loop"}
    /\ Len(examined) < MaxUpdates
    /\ \E sh \in Shapes :
        inbox' = Append(inbox, [sh EXCEPT !.update_id = Len(examined) + 1])
    /\ examined' = Append(examined, 0)
    /\ handled' = Append(handled, 0)
    /\ UNCHANGED <<pc, cfgVars, fetchVars, evalVars, call, sendVars,
                   now, end_time, offset, result, queried, upd>>

PollProgram ==
    \/ PollStart \/ PollQuery \/ PollExit \/ Examine \/ PollForEnd
    \/ HandleStatus \/ PollSleep

NextPoll == PollProgram \/ Arrive

SpecPoll == InitPoll /\ [][NextPoll]_vars

\* the process keeps running: every blocking call has a timeout
LivePoll == SpecPoll /\ WF_vars(PollProgram)

(***************************************************************************)
(* Properties of poll_updates_for_status (SpecPoll, LivePoll).             *)
(***************************************************************************)
\* the updates that are the command from chat 42, spelled out
C7_Accepted(u) ==
    /\ u.kind \in {"message", "edited_message"}
    /\ u.chat = Some(42)
    /\ u.text \in {Some(<<"/", "s", "t", "a", "t", "u", "s">>),
                   Some(<<"s", "t", "a", "t", "u", "s">>),
                   Some(<<" ", "S", "t", "a", "t", "u", "s", "\n">>)}

\* C7 as stated: an examined update starts handle_status exactly when it
\* comes from the configured chat and its text is the literal "/status".
C7_LiteralCommandOnly ==
    (upd # None /\ CHAT_ID = <<"4", "2">>) =>
        ((pc = "handle_status") <=>
            (upd[1].chat = Some(42)
             /\ upd[1].text = Some(<<"/", "s", "t", "a", "t", "u", "s">>)))

\* C7 amended: an examined update starts handle_status exactly when it
\* carries a message or edited message from the configured chat whose text,
\* trimmed and lower-cased, is "/status" or "status"; the call returns
\* before the next update of the batch is examined.
C7_TrimmedCommandEitherForm ==
    (upd # None /\ CHAT_ID = <<"4", "2">>) =>
        /\ (pc = "handle_status") <=> C7_Accepted(upd[1])
        /\ pc = "handle_status" =>
             /\ examined[upd[1].update_id] = 1 /\ handled[upd[1].update_id] = 0
             /\ \A i \in DOMAIN result :
                  /\ result[i].update_id > upd[1].update_id
                  /\ examined[result[i].update_id] = 0
C7_Witness ==
    /\ pc = "handle_status" /\ upd # None /\ upd[1].kind = "edited_message"
    /\ upd[1].text = Some(<<" ", "S", "t", "a", "t", "u", "s", "\n">>)
    /\ result # <<>>

\* C9: the listening loop ends, and no query starts at or after end_time
\* (the loop itself may end later, after a call that was in flight).
C9_LoopTerminates ==
    /\ <>(pc = "done")
    /\ [](queried # None => queried[1].at < end_time)
C9_Witness ==
    pc = "done" /\ queried # None /\ now > end_time /\ end_time > 0 /\ posts > 0

\* C10: the offset is update_id + 1 when an update is acted on, every later
\* query carries it, a failed query leaves it alone, and so no update is
\* examined twice or answered twice.
C10_EachUpdateOnce ==
    /\ [](/\ \A id \in DOMAIN examined : examined[id] <= 1 /\ handled[id] <= 1
          /\ pc = "handle_status" => offset = Some(upd[1].update_id + 1)
          /\ posts <= Len(examined))
    /\ [][(pc = "poll_loop" /\ pc' \in {"poll_for", "poll_sleep"}) =>
            /\ queried'[1].offset = offset
            /\ offset' = offset
            /\ \A i \in DOMAIN result' :
                 offset # None => result'[i].update_id >= offset[1]]_vars
C10_Witness ==
    /\ examined = <<1, 1>> /\ handled = <<1, 1>> /\ posts = 2
    /\ queried # None /\ queried[1].offset = Some(2) /\ pc = "done"

====
